---- MODULE Spec2Model ----
(***************************************************************************)
(* Model of the city-lifestyle back end:                                   *)
(*   - DataCleaner (src/src/clean_data.py): the cleaning pipeline, one     *)
(*     action per stage of DataCleaner.clean;                              *)
(*   - CityLifestyleDataProcessor (src/src/data_processor.py) and the      *)
(*     Flask routes of src/src/main.py: the stats engine shared by         *)
(*     request handlers;                                                   *)
(*   - DataRetriever (src/src/get_data.py): the file cache.                *)
(*                                                                         *)
(* Numbers are fixed-point integers counting quarters (Fx(n) = 4n), so     *)
(* that the median of two integers and the geocoder's fractions are exact. *)
(* pandas semantics are those of pandas 1.x/2.x, where an inplace fillna   *)
(* on a selected column updates the frame.                                 *)
(***************************************************************************)
EXTENDS Integers, Sequences, FiniteSets, TLC

VARIABLES
    source,          \* the file at input_path
    dest,            \* the file at output_path
    destAtStart,     \* history: dest when the current clean() call began
    df,              \* DataCleaner.df
    prev,            \* history: df as it was before the latest stage ran
    pc,              \* the next stage of clean(), or "done" / "failed"
    trace,           \* history: the stages begun by the current clean() call
    duplicates,      \* clean()'s local: result of remove_duplicates
    missing,         \* clean()'s local: result of handle_missing_values
    outliers,        \* clean()'s local: result of validate_numeric_ranges
    cleaning_report, \* DataCleaner.cleaning_report
    run,             \* 1 for the first clean() call, 2 for the second
    firstOut,        \* history: the file the first clean() call wrote
    edf,             \* CityLifestyleDataProcessor.df, shared by the handlers
    hpc,             \* per request handler: where it is in its request
    filtered,        \* per handler: apply_filters' local filtered_df
    saved,           \* per handler: the original_df apply_filters returned
    reply,           \* the last response a handler produced
    lastOp,          \* history: the last engine operation and who was then
                     \* between an apply_filters and its restore_dataframe
    loaded,          \* history: the dataset the engine was constructed with
    call,            \* history, per handler: the filters of its apply_filters
                     \* in progress and the frame that call copied
    now,             \* DataRetriever: the clock
    origin,          \* the file at source_path
    cached_file,     \* the file raw_data_dir / filename
    fetch            \* history: the last get_data call

cleanerVars == <<source, dest, destAtStart, df, prev, pc, trace, duplicates,
                 missing, outliers, cleaning_report, run, firstOut>>

engineVars == <<edf, hpc, filtered, saved, reply, lastOp, loaded, call>>

cacheVars == <<now, origin, cached_file, fetch>>

vars == <<cleanerVars, engineVars, cacheVars>>

\* Largest number of data rows of an input file.
MaxRows == 2

\* Largest number of rows of the dataset the engine is loaded with.
MaxEngineRows == 2

\* Number of request handlers sharing the engine.
NumHandlers == 2

\* Largest top_n a request asks for.
MaxTopN == 2

\* The last instant of the clock.
MaxTime == 4

\* DataRetriever.cache_duration, in clock ticks.
CacheDuration == 2

\* n as a fixed-point number (quarters).
Fx(n) == 4 * n

-----------------------------------------------------------------------------
(* Cells of a CSV file (text) and cells of a data frame (values).          *)

\* CSV cells: nothing between the commas, a decimal numeral, any other text.
Empty == [k |-> "empty", s |-> "", n |-> 0]
Numeral(n) == [k |-> "numeral", s |-> "", n |-> n]
Text(s) == [k |-> "text", s |-> s, n |-> 0]

\* Frame cells: NaN/None, a number, a string, a string that spells a number.
NA == [k |-> "na", s |-> "", n |-> 0]
Num(n) == [k |-> "num", s |-> "", n |-> n]
Str(s) == [k |-> "str", s |-> s, n |-> 0]
Digits(n) == [k |-> "digits", s |-> "", n |-> n]

NoFile == [exists |-> FALSE, cols |-> {}, rows |-> <<>>]
\* A file already at output_path before the run; no run writes this content.
OldFile == [exists |-> TRUE, cols |-> {"stale"}, rows |-> <<>>]

NoFrame == [cols |-> {}, dtype |-> [c \in {} |-> "obj"], rows |-> <<>>]

\* The ten columns convert_types coerces.
NumericColumns ==
    {"population_density", "avg_income", "internet_penetration", "avg_rent",
     "air_quality_index", "public_transport_score", "happiness_score",
     "green_space_ratio", "latitude", "longitude"}

\* The eight range-constrained columns and their inclusive <<min, max>>.
Validations ==
    [population_density |-> <<Fx(0), Fx(100000)>>,
     avg_income |-> <<Fx(0), Fx(200000)>>,
     internet_penetration |-> <<Fx(0), Fx(100)>>,
     avg_rent |-> <<Fx(0), Fx(50000)>>,
     air_quality_index |-> <<Fx(0), Fx(500)>>,
     public_transport_score |-> <<Fx(0), Fx(100)>>,
     happiness_score |-> <<Fx(0), Fx(10)>>,
     green_space_ratio |-> <<Fx(0), Fx(100)>>]

-----------------------------------------------------------------------------
(* The input files the model draws from.                                   *)

CityTokens == {Empty, Text("Paris"), Text("Unknown")}
CountryTokens == {Empty, Text("Europe")}
HappinessTokens ==
    {Empty, Text("abc"), Numeral(Fx(-3)), Numeral(Fx(4)), Numeral(Fx(15))}
LatitudeTokens == {Empty, Numeral(Fx(48))}
LongitudeTokens == {Empty, Numeral(Fx(2))}

Tokens(col) ==
    CASE col = "city_name" -> CityTokens
      [] col = "country" -> CountryTokens
      [] col = "happiness_score" -> HappinessTokens
      [] col = "latitude" -> LatitudeTokens
      [] col = "longitude" -> LongitudeTokens

InputColumnSets ==
    {{"city_name", "country", "happiness_score"},
     {"city_name", "country", "latitude", "longitude"},
     {"city_name", "country", "latitude"},
     {"city_name", "country"},
     {"city_name", "happiness_score"}}

AllTokens ==
    CityTokens \cup CountryTokens \cup HappinessTokens
        \cup LatitudeTokens \cup LongitudeTokens

InputRows(C) == {r \in [C -> AllTokens] : \A c \in C : r[c] \in Tokens(c)}

\* f is no file, or a CSV file over one of the column sets with at most
\* MaxRows rows.
IsInputFile(f) ==
    \/ f = NoFile
    \/ \E C \in InputColumnSets : \E n \in 0..MaxRows :
           \E rs \in [1..n -> InputRows(C)] :
               f = [exists |-> TRUE, cols |-> C, rows |-> rs]

-----------------------------------------------------------------------------
(* pd.read_csv and DataFrame.to_csv.                                       *)

\* The dtype read_csv infers for a column: numeric when the file has rows and
\* every cell is empty or a numeral, object otherwise.
InferDtype(f, c) ==
    IF Len(f.rows) > 0
       /\ \A i \in 1..Len(f.rows) : f.rows[i][c].k \in {"empty", "numeral"}
    THEN "num" ELSE "obj"

ReadCell(t, dt) ==
    CASE t.k = "empty" -> NA
      [] t.k = "numeral" -> IF dt = "num" THEN Num(t.n) ELSE Digits(t.n)
      [] t.k = "text" -> Str(t.s)

ReadCsv(f) ==
    LET dt == [c \in f.cols |-> InferDtype(f, c)]
    IN  [cols |-> f.cols,
         dtype |-> dt,
         rows |-> [i \in 1..Len(f.rows) |->
                      [c \in f.cols |-> ReadCell(f.rows[i][c], dt[c])]]]

WriteCell(v) ==
    CASE v.k = "na" -> Empty
      [] v.k = "num" -> Numeral(v.n)
      [] v.k = "digits" -> Numeral(v.n)
      [] v.k = "str" -> IF v.s = "" THEN Empty ELSE Text(v.s)

ToCsv(d) ==
    [exists |-> TRUE,
     cols |-> d.cols,
     rows |-> [i \in 1..Len(d.rows) |->
                  [c \in d.cols |-> WriteCell(d.rows[i][c])]]]

-----------------------------------------------------------------------------
(* DataCleaner.clean: the order of its stages.                             *)

NextStageSaveEarly(s) ==
    CASE s = "load_data" -> "convert_types"
      [] s = "convert_types" -> "remove_duplicates"
      [] s = "remove_duplicates" -> "handle_missing_values"
      [] s = "handle_missing_values" -> "validate_numeric_ranges"
      [] s = "validate_numeric_ranges" -> "save_cleaned_data"
      [] s = "save_cleaned_data" -> "ensure_geolocation"
      [] s = "ensure_geolocation" -> "generate_statistics"
      [] s = "generate_statistics" -> "done"

NextStageDedupFirst(s) ==
    CASE s = "load_data" -> "remove_duplicates"
      [] s = "remove_duplicates" -> "convert_types"
      [] s = "convert_types" -> "handle_missing_values"
      [] s = "handle_missing_values" -> "validate_numeric_ranges"
      [] s = "validate_numeric_ranges" -> "ensure_geolocation"
      [] s = "ensure_geolocation" -> "generate_statistics"
      [] s = "generate_statistics" -> "save_cleaned_data"
      [] s = "save_cleaned_data" -> "done"

NextStage(s) ==
    CASE s = "load_data" -> "convert_types"
      [] s = "convert_types" -> "remove_duplicates"
      [] s = "remove_duplicates" -> "handle_missing_values"
      [] s = "handle_missing_values" -> "validate_numeric_ranges"
      [] s = "validate_numeric_ranges" -> "ensure_geolocation"
      [] s = "ensure_geolocation" -> "generate_statistics"
      [] s = "generate_statistics" -> "save_cleaned_data"
      [] s = "save_cleaned_data" -> "done"

FirstStage == "load_data"

NoReport == [c \in {} |-> 0]

Handlers == 1..NumHandlers

NoTop ==
    [cities |-> <<>>, countries |-> <<>>, metric_values |-> <<>>,
     avg_income |-> <<>>, happiness_score |-> <<>>]

\* The argument of get_city_comparison: None, or a list of names.
NoCities == [given |-> FALSE, names |-> <<>>]
Cities(names) == [given |-> TRUE, names |-> names]

NoReply ==
    [kind |-> "none", status |-> 0, metric |-> "", top_n |-> 0,
     computed |-> FALSE, total |-> 0, data |-> NoTop,
     cities |-> NoCities, comparison |-> <<>>, happiest_country |-> "",
     city_count |-> <<>>, options |-> [countries |-> {}, cities |-> {}],
     result |-> <<>>]

\* A filters dict: per key, whether it is in the dict and its value.
AbsentList == [has |-> FALSE, v |-> {}]
AbsentNum == [has |-> FALSE, v |-> 0]
GivenList(S) == [has |-> TRUE, v |-> S]
GivenNum(n) == [has |-> TRUE, v |-> n]

NoFilters ==
    [country |-> AbsentList, city |-> AbsentList,
     min_happiness |-> AbsentNum, max_happiness |-> AbsentNum,
     min_income |-> AbsentNum, max_income |-> AbsentNum]

NoCall == [filters |-> NoFilters, before |-> <<>>]

\* The engine before it is constructed.
EngineOff ==
    /\ edf = <<>>
    /\ hpc = [h \in Handlers |-> "off"]
    /\ filtered = [h \in Handlers |-> <<>>]
    /\ saved = [h \in Handlers |-> <<>>]
    /\ reply = NoReply
    /\ lastOp = [by |-> 0, op |-> "none", during |-> {}]
    /\ loaded = <<>>
    /\ call = [h \in Handlers |-> NoCall]

\* A file of the retriever: whether it exists, its st_mtime, and (history)
\* when it was put where it is.
Absent == [exists |-> FALSE, mtime |-> 0, placed |-> 0]
FileAt(mtime, placed) == [exists |-> TRUE, mtime |-> mtime, placed |-> placed]

NoFetch ==
    [called |-> FALSE, force |-> FALSE, at |-> 0, had |-> Absent,
     copied |-> FALSE, raised |-> FALSE]

\* The retriever before it is constructed.
CacheOff ==
    /\ now = 0
    /\ origin = Absent
    /\ cached_file = Absent
    /\ fetch = NoFetch

Init ==
    /\ EngineOff
    /\ CacheOff
    /\ IsInputFile(source)
    /\ dest \in {NoFile, OldFile}
    /\ destAtStart = dest
    /\ df = NoFrame
    /\ prev = NoFrame
    /\ pc = FirstStage
    /\ trace = <<>>
    /\ duplicates = 0
    /\ missing = NoReport
    /\ outliers = NoReport
    /\ cleaning_report = NoReport
    /\ run = 1
    /\ firstOut = NoFile

\* A stage that raises: clean() propagates the exception.
Raise(stage) ==
    /\ pc' = "failed"
    /\ trace' = Append(trace, stage)
    /\ prev' = df
    /\ UNCHANGED <<source, dest, destAtStart, df, duplicates, missing,
                   outliers, cleaning_report, run, firstOut>>
    /\ UNCHANGED <<engineVars, cacheVars>>

\* A stage that returns: the frame it leaves and the next stage.
Return(stage, frame) ==
    /\ pc' = NextStage(stage)
    /\ trace' = Append(trace, stage)
    /\ prev' = df
    /\ df' = frame
    /\ UNCHANGED <<source, destAtStart, run, firstOut>>
    /\ UNCHANGED <<engineVars, cacheVars>>

load_data ==
    /\ pc = "load_data"
    /\ IF source.exists
       THEN /\ Return("load_data", ReadCsv(source))
            /\ UNCHANGED <<dest, duplicates, missing, outliers, cleaning_report>>
       ELSE Raise("load_data")

-----------------------------------------------------------------------------
(* convert_types                                                           *)

\* pd.to_numeric(errors="coerce") on one cell.
ToNumeric(v) ==
    CASE v.k = "num" -> v
      [] v.k = "digits" -> Num(v.n)
      [] v.k = "str" -> NA
      [] v.k = "na" -> NA

ConvertTypes(d) ==
    LET conv == d.cols \cap NumericColumns
    IN  [cols |-> d.cols,
         dtype |-> [c \in d.cols |-> IF c \in conv THEN "num" ELSE d.dtype[c]],
         rows |-> [i \in 1..Len(d.rows) |->
                      [c \in d.cols |->
                          IF c \in conv THEN ToNumeric(d.rows[i][c])
                                        ELSE d.rows[i][c]]]]

convert_types ==
    /\ pc = "convert_types"
    /\ Return("convert_types", ConvertTypes(df))
    /\ UNCHANGED <<dest, duplicates, missing, outliers, cleaning_report>>

-----------------------------------------------------------------------------
(* remove_duplicates                                                       *)

\* The subset drop_duplicates compares; two missing values compare equal.
Key(r) == <<r["city_name"], r["country"]>>

KeepLast(rows, i) ==
    \A j \in (i + 1)..Len(rows) : Key(rows[j]) # Key(rows[i])

\* keep="first": row i survives when no earlier row has its key.
KeepFirst(rows, i) ==
    \A j \in 1..(i - 1) : Key(rows[j]) # Key(rows[i])

RECURSIVE DropFrom(_, _)
DropFrom(rows, i) ==
    IF i > Len(rows) THEN <<>>
    ELSE (IF KeepFirst(rows, i) THEN <<rows[i]>> ELSE <<>>)
             \o DropFrom(rows, i + 1)

DropDuplicates(d) == [d EXCEPT !.rows = DropFrom(d.rows, 1)]

remove_duplicates ==
    /\ pc = "remove_duplicates"
    /\ IF {"city_name", "country"} \subseteq df.cols
       THEN /\ Return("remove_duplicates", DropDuplicates(df))
            /\ duplicates' = Len(df.rows) - Len(DropDuplicates(df).rows)
            /\ UNCHANGED <<dest, missing, outliers, cleaning_report>>
       ELSE Raise("remove_duplicates")   \* KeyError

-----------------------------------------------------------------------------
(* handle_missing_values                                                   *)

RECURSIVE NonNull(_, _, _)
\* The numbers of column c in rows i.. of the frame, in row order.
NonNull(rows, c, i) ==
    IF i > Len(rows) THEN <<>>
    ELSE (IF rows[i][c].k = "num" THEN <<rows[i][c].n>> ELSE <<>>)
             \o NonNull(rows, c, i + 1)

MedianLow(vals) ==
    LET sorted == SortSeq(vals, LAMBDA a, b : a < b)
    IN  sorted[(Len(vals) + 1) \div 2]

\* Series.median of at least one number: the middle one, or the mean of the
\* two middle ones.
Median(vals) ==
    LET sorted == SortSeq(vals, LAMBDA a, b : a < b)
        m == Len(vals)
    IN  IF m % 2 = 1 THEN sorted[(m + 1) \div 2]
        ELSE (sorted[m \div 2] + sorted[m \div 2 + 1]) \div 2

MissingCount(d, c) == Cardinality({i \in 1..Len(d.rows) : d.rows[i][c].k = "na"})

\* What fillna writes into the nulls of column c: the median for a numeric
\* dtype (NaN again when the column has no number), "Unknown" otherwise.
FillValue(d, c) ==
    IF d.dtype[c] = "num"
    THEN (IF NonNull(d.rows, c, 1) = <<>> THEN NA
          ELSE Num(Median(NonNull(d.rows, c, 1))))
    ELSE Str("Unknown")

HandleMissing(d) ==
    [d EXCEPT !.rows =
        [i \in 1..Len(d.rows) |->
            [c \in d.cols |->
                IF d.rows[i][c].k = "na" THEN FillValue(d, c)
                                         ELSE d.rows[i][c]]]]

MissingStats(d) ==
    [c \in {x \in d.cols : MissingCount(d, x) > 0} |-> MissingCount(d, c)]

handle_missing_values ==
    /\ pc = "handle_missing_values"
    /\ Return("handle_missing_values", HandleMissing(df))
    /\ missing' = MissingStats(df)
    /\ UNCHANGED <<dest, duplicates, outliers, cleaning_report>>

-----------------------------------------------------------------------------
(* validate_numeric_ranges                                                 *)

RangedColumns == DOMAIN Validations

\* (df[col] < min) | (df[col] > max): false for NaN.
OutOfRange(v, lo, hi) == v.k = "num" /\ (v.n < lo \/ v.n > hi)

OutOfRangeCount(d, c) ==
    Cardinality({i \in 1..Len(d.rows) :
                    OutOfRange(d.rows[i][c], Validations[c][1], Validations[c][2])})

ClipLowOnly(v, lo, hi) ==
    IF v.k # "num" THEN v
    ELSE IF v.n < lo THEN Num(lo) ELSE v

\* Series.clip(min, max) on one cell; NaN stays NaN.
Clip(v, lo, hi) ==
    IF v.k # "num" THEN v
    ELSE IF v.n < lo THEN Num(lo)
    ELSE IF v.n > hi THEN Num(hi)
    ELSE v

Outliers(d) ==
    [c \in {x \in d.cols \cap RangedColumns : OutOfRangeCount(d, x) > 0} |->
        OutOfRangeCount(d, c)]

ValidateRanges(d) ==
    [d EXCEPT !.rows =
        [i \in 1..Len(d.rows) |->
            [c \in d.cols |->
                IF c \in DOMAIN Outliers(d)
                THEN Clip(d.rows[i][c], Validations[c][1], Validations[c][2])
                ELSE d.rows[i][c]]]]

validate_numeric_ranges ==
    /\ pc = "validate_numeric_ranges"
    /\ Return("validate_numeric_ranges", ValidateRanges(df))
    /\ outliers' = Outliers(df)
    /\ UNCHANGED <<dest, duplicates, missing, cleaning_report>>

-----------------------------------------------------------------------------
(* ensure_geolocation and the geocoder                                     *)

ContinentBoxGlobal(continent) == <<Fx(-55), Fx(70), Fx(-130), Fx(150)>>

ContinentBox(continent) ==
    CASE continent = "Europe" -> <<Fx(35), Fx(70), Fx(-10), Fx(40)>>
      [] continent = "Asia" -> <<Fx(5), Fx(55), Fx(60), Fx(140)>>
      [] continent = "North America" -> <<Fx(25), Fx(70), Fx(-130), Fx(-60)>>
      [] continent = "South America" -> <<Fx(-55), Fx(15), Fx(-80), Fx(-35)>>
      [] continent = "Africa" -> <<Fx(-35), Fx(35), Fx(-20), Fx(50)>>
      [] continent = "Oceania" -> <<Fx(-50), Fx(5), Fx(110), Fx(150)>>
      [] OTHER -> <<Fx(-55), Fx(70), Fx(-130), Fx(150)>>

\* str() of a cell inside an f-string; also the key handed to the box table
\* (a NaN key matches no box, like the text "nan").
CellText(v) ==
    CASE v.k = "str" -> v.s
      [] v.k = "na" -> "nan"

\* <<frac_lat, frac_lon>> of sha256(seed), each truncated to its two leading
\* bits, as a fixed-point number in [0, 1).
DigestFrac(seed) ==
    CASE seed = "Paris-Europe" -> <<1, 2>>
      [] seed = "Paris-Unknown" -> <<2, 3>>
      [] seed = "Paris-nan" -> <<0, 0>>
      [] seed = "Unknown-Europe" -> <<3, 1>>
      [] seed = "Unknown-Unknown" -> <<2, 3>>
      [] seed = "Unknown-nan" -> <<3, 3>>
      [] seed = "nan-Europe" -> <<1, 2>>
      [] seed = "nan-Unknown" -> <<2, 0>>
      [] seed = "nan-nan" -> <<2, 1>>

DeterministicPoint(seed, continent) ==
    LET frac == DigestFrac(seed)
        box == ContinentBox(continent)
    IN  <<box[1] + ((box[2] - box[1]) * frac[1]) \div Fx(1),
          box[3] + ((box[4] - box[3]) * frac[2]) \div Fx(1)>>

RowPoint(r) ==
    DeterministicPoint(CellText(r["city_name"]) \o "-" \o CellText(r["country"]),
                       CellText(r["country"]))

HasCoordinates(d) == "latitude" \in d.cols /\ "longitude" \in d.cols

\* DataFrame.apply(..., axis=1, result_type="expand") on a frame without rows
\* returns a copy of the frame, so naming its columns latitude, longitude
\* raises unless the frame has exactly two columns.
GeolocationRaises(d) ==
    ~HasCoordinates(d) /\ Len(d.rows) = 0 /\ Cardinality(d.cols) # 2

EnsureGeolocation(d) ==
    IF HasCoordinates(d) THEN d
    ELSE LET C == d.cols \cup {"latitude", "longitude"}
         IN  [cols |-> C,
              dtype |-> [c \in C |->
                            IF c \in {"latitude", "longitude"}
                            THEN (IF Len(d.rows) = 0 THEN "obj" ELSE "num")
                            ELSE d.dtype[c]],
              rows |-> [i \in 1..Len(d.rows) |->
                           [c \in C |->
                               CASE c = "latitude" -> Num(RowPoint(d.rows[i])[1])
                                 [] c = "longitude" -> Num(RowPoint(d.rows[i])[2])
                                 [] OTHER -> d.rows[i][c]]]]

ensure_geolocation ==
    /\ pc = "ensure_geolocation"
    /\ IF GeolocationRaises(df)
       THEN Raise("ensure_geolocation")   \* ValueError: length mismatch
       ELSE /\ Return("ensure_geolocation", EnsureGeolocation(df))
            /\ UNCHANGED <<dest, duplicates, missing, outliers, cleaning_report>>

-----------------------------------------------------------------------------
(* generate_statistics, the report, save_cleaned_data                      *)

\* The counts of generate_statistics (the per-column describe() summary is
\* left out).
Statistics(d) ==
    [total_rows |-> Len(d.rows),
     total_columns |-> Cardinality(d.cols),
     countries |-> Cardinality({d.rows[i]["country"] : i \in 1..Len(d.rows)}),
     cities |-> Cardinality({d.rows[i]["city_name"] : i \in 1..Len(d.rows)})]

generate_statistics ==
    /\ pc = "generate_statistics"
    /\ Return("generate_statistics", df)
    /\ cleaning_report' =
           [duplicates_removed |-> duplicates,
            missing_values |-> missing,
            outliers_found |-> outliers,
            final_statistics |-> Statistics(df)]
    /\ UNCHANGED <<dest, duplicates, missing, outliers>>

save_cleaned_data ==
    /\ pc = "save_cleaned_data"
    /\ Return("save_cleaned_data", df)
    /\ dest' = ToCsv(df)
    /\ UNCHANGED <<duplicates, missing, outliers, cleaning_report>>

-----------------------------------------------------------------------------
Next ==
    \/ load_data
    \/ convert_types
    \/ remove_duplicates
    \/ handle_missing_values
    \/ validate_numeric_ranges
    \/ ensure_geolocation
    \/ generate_statistics
    \/ save_cleaned_data

Spec == Init /\ [][Next]_vars

\* A second clean() call whose input is the file the first call wrote.
clean_again ==
    /\ pc = "done"
    /\ run = 1
    /\ run' = 2
    /\ firstOut' = dest
    /\ source' = dest
    /\ destAtStart' = dest
    /\ pc' = FirstStage
    /\ trace' = <<>>
    /\ UNCHANGED <<dest, df, prev, duplicates, missing, outliers, cleaning_report>>
    /\ UNCHANGED <<engineVars, cacheVars>>

NextTwice == Next \/ clean_again

SpecTwice == Init /\ [][NextTwice]_vars

-----------------------------------------------------------------------------
(* Properties of the cleaning pipeline.                                    *)

LastStage == IF trace = <<>> THEN "none" ELSE trace[Len(trace)]

\* The stage that ran last returned (did not raise).
Returned(stage) == LastStage = stage /\ pc # "failed"

\* C1: after clean, no two rows of the cleaned dataset have the same
\* (city_name, country) pair.
C1_Uniqueness ==
    pc = "done" =>
        \A i, j \in 1..Len(df.rows) :
            i # j => <<df.rows[i]["city_name"], df.rows[i]["country"]>>
                        # <<df.rows[j]["city_name"], df.rows[j]["country"]>>

\* C2: after clean, no cell of any column of the cleaned dataset is null.
C2_NoMissingValues ==
    pc = "done" =>
        \A i \in 1..Len(df.rows) : \A c \in df.cols : df.rows[i][c].k # "na"

\* C3: cleaning the output of a clean run again writes the same dataset.
C3_Idempotent == (run = 2 /\ pc = "done") => dest = firstOut

\* C4: after clean, every value of a range-constrained column present in
\* the dataset lies within the column's inclusive [min, max].
C4_RangeContainment ==
    pc = "done" =>
        \A i \in 1..Len(df.rows) :
            \A c \in df.cols \cap DOMAIN Validations :
                /\ df.rows[i][c].k = "num"
                /\ Validations[c][1] <= df.rows[i][c].n
                /\ df.rows[i][c].n <= Validations[c][2]

\* The eight stages in the order the specification gives them.
StageOrder ==
    <<"load_data", "convert_types", "remove_duplicates", "handle_missing_values",
      "validate_numeric_ranges", "ensure_geolocation", "generate_statistics",
      "save_cleaned_data">>

\* C7: a run that fails leaves the destination file as it was, and the
\* destination is written only once every stage before the last has returned.
C7_NoWriteOnFailure ==
    /\ pc = "failed" => dest = destAtStart
    /\ dest # destAtStart =>
           /\ pc = "done"
           /\ Len(trace) = Len(StageOrder)
           /\ LastStage = "save_cleaned_data"
           /\ \A k \in 1..(Len(StageOrder) - 1) :
                  \E m \in 1..(Len(trace) - 1) : trace[m] = StageOrder[k]

\* A run failed in a stage after deduplication, with a file at the destination.
C7_Witness ==
    pc = "failed" /\ LastStage = "ensure_geolocation" /\ dest = OldFile

\* C8: the stages of a run occur in the specified order, each at most once,
\* and a run that completes has gone through all eight.
C8_StageOrder ==
    /\ Len(trace) <= Len(StageOrder)
    /\ \A k \in 1..Len(trace) : trace[k] = StageOrder[k]
    /\ pc = "done" => trace = StageOrder

C8_Witness == pc = "done" /\ dest # destAtStart

\* C9: deduplication keeps exactly the first row of every (city_name,
\* country) pair, in the original order, and reports how many rows it removed.
C9_Deduplicate ==
    Returned("remove_duplicates") =>
        LET before == prev.rows
            after == df.rows
            pair(r) == <<r["city_name"], r["country"]>>
            first == {i \in 1..Len(before) :
                         \A j \in 1..(i - 1) : pair(before[j]) # pair(before[i])}
            nth(m) == CHOOSE i \in first : Cardinality({j \in first : j <= i}) = m
        IN  /\ Len(after) = Cardinality(first)
            /\ \A m \in 1..Len(after) : after[m] = before[nth(m)]
            /\ duplicates = Len(before) - Len(after)
            /\ df.cols = prev.cols

\* Deduplication removed a row that differs from the one it kept.
C9_Witness ==
    /\ Returned("remove_duplicates")
    /\ duplicates > 0
    /\ \E i, j \in 1..Len(prev.rows) :
           /\ i < j
           /\ Key(prev.rows[i]) = Key(prev.rows[j])
           /\ prev.rows[i] # prev.rows[j]

\* C10: the clip stage reports, per range-constrained column, the number of
\* rows out of range (no entry when there is none), moves each such value to
\* the nearest bound, and changes neither the other values nor the row count.
C10_Clip ==
    Returned("validate_numeric_ranges") =>
        /\ Len(df.rows) = Len(prev.rows)
        /\ df.cols = prev.cols
        /\ DOMAIN outliers \subseteq prev.cols \cap DOMAIN Validations
        /\ \A c \in prev.cols \cap DOMAIN Validations :
               LET lo == Validations[c][1]
                   hi == Validations[c][2]
                   below == {i \in 1..Len(prev.rows) :
                                prev.rows[i][c].k = "num" /\ prev.rows[i][c].n < lo}
                   above == {i \in 1..Len(prev.rows) :
                                prev.rows[i][c].k = "num" /\ prev.rows[i][c].n > hi}
               IN  /\ IF below \cup above = {}
                      THEN c \notin DOMAIN outliers
                      ELSE /\ c \in DOMAIN outliers
                           /\ outliers[c] = Cardinality(below) + Cardinality(above)
                   /\ \A i \in 1..Len(prev.rows) :
                          df.rows[i][c] = CASE i \in below -> Num(lo)
                                            [] i \in above -> Num(hi)
                                            [] OTHER -> prev.rows[i][c]
        /\ \A c \in prev.cols \ DOMAIN Validations :
               \A i \in 1..Len(prev.rows) : df.rows[i][c] = prev.rows[i][c]

\* The clip stage met a value above the maximum and one within the range.
C10_Witness ==
    /\ Returned("validate_numeric_ranges")
    /\ "happiness_score" \in DOMAIN outliers
    /\ \E i, j \in 1..Len(prev.rows) :
           /\ prev.rows[i]["happiness_score"] = Num(Fx(15))
           /\ df.rows[i]["happiness_score"] = Num(Fx(10))
           /\ prev.rows[j]["happiness_score"] = Num(Fx(4))

\* The bounding box <<lat_min, lat_max, lon_min, lon_max>> the specification
\* assigns to the country cell of an output row.
CountryBox(t) ==
    CASE t = Text("Europe") -> <<Fx(35), Fx(70), Fx(-10), Fx(40)>>
      [] t = Text("Asia") -> <<Fx(5), Fx(55), Fx(60), Fx(140)>>
      [] t = Text("North America") -> <<Fx(25), Fx(70), Fx(-130), Fx(-60)>>
      [] t = Text("South America") -> <<Fx(-55), Fx(15), Fx(-80), Fx(-35)>>
      [] t = Text("Africa") -> <<Fx(-35), Fx(35), Fx(-20), Fx(50)>>
      [] t = Text("Oceania") -> <<Fx(-50), Fx(5), Fx(110), Fx(150)>>
      [] OTHER -> <<Fx(-55), Fx(70), Fx(-130), Fx(150)>>

NoCoordinateColumn(f) == f.cols \cap {"latitude", "longitude"} = {}

\* C11: when the input has neither a latitude nor a longitude column, the
\* cleaned output has both, every row has a number in each, and the point
\* lies inside the bounding box of the row's country (the global box when the
\* country is none of the six named regions).
C11_GeneratedCoordinates ==
    (pc = "done" /\ NoCoordinateColumn(source)) =>
        /\ {"latitude", "longitude"} \subseteq dest.cols
        /\ Len(dest.rows) = Len(df.rows)
        /\ \A i \in 1..Len(dest.rows) :
               LET r == dest.rows[i]
                   box == CountryBox(r["country"])
               IN  /\ r["latitude"].k = "numeral"
                   /\ r["longitude"].k = "numeral"
                   /\ box[1] <= r["latitude"].n
                   /\ r["latitude"].n <= box[2]
                   /\ box[3] <= r["longitude"].n
                   /\ r["longitude"].n <= box[4]

\* A cleaned output with generated points: one row of a named region and one
\* row whose country matches no region.
C11_Witness ==
    /\ pc = "done"
    /\ NoCoordinateColumn(source)
    /\ \E i, j \in 1..Len(dest.rows) :
           /\ dest.rows[i]["country"] = Text("Europe")
           /\ dest.rows[j]["country"] = Text("Unknown")
           /\ dest.rows[i]["latitude"].k = "numeral"
           /\ dest.rows[j]["latitude"].k = "numeral"

\* C12: the ensure-geolocation stage leaves every coordinate column that is
\* present before it unchanged, also when only one of the two is present.
C12_CoordinatesUntouched ==
    Returned("ensure_geolocation") =>
        \A c \in {"latitude", "longitude"} \cap prev.cols :
            /\ c \in df.cols
            /\ Len(df.rows) = Len(prev.rows)
            /\ \A i \in 1..Len(prev.rows) : df.rows[i][c] = prev.rows[i][c]

\* C16: the imputation stage replaces the nulls of a numeric column by the
\* median of the column's non-null values, the nulls of any other column by
\* "Unknown", changes no non-null cell, and reports the number of nulls of
\* exactly the columns that had some.
C16_Imputation ==
    Returned("handle_missing_values") =>
        /\ df.cols = prev.cols
        /\ Len(df.rows) = Len(prev.rows)
        /\ \A c \in prev.cols :
               LET nulls == {i \in 1..Len(prev.rows) : prev.rows[i][c].k = "na"}
                   vals == NonNull(prev.rows, c, 1)
               IN  /\ \A i \in (1..Len(prev.rows)) \ nulls :
                          df.rows[i][c] = prev.rows[i][c]
                   /\ \A i \in nulls :
                          IF c \in NumericColumns
                          THEN vals # <<>> => df.rows[i][c] = Num(Median(vals))
                          ELSE df.rows[i][c] = Str("Unknown")
                   /\ (nulls # {}) <=> (c \in DOMAIN missing)
                   /\ nulls # {} => missing[c] = Cardinality(nulls)

-----------------------------------------------------------------------------
(* The stats engine: CityLifestyleDataProcessor and the Flask routes.      *)

EngineRow(city, country, happiness, income, aqi, rent) ==
    [city_name |-> city, country |-> country, happiness_score |-> Fx(happiness),
     avg_income |-> Fx(income), air_quality_index |-> Fx(aqi),
     avg_rent |-> Fx(rent)]

\* The rows the engine's dataset is drawn from.
EngineRowChoices ==
    {EngineRow("Paris", "France", 7, 30, 40, 12),
     EngineRow("Lyon", "France", 7, 20, 30, 8),
     EngineRow("Rome", "Italy", 5, 0, 40, 9),
     EngineRow("Paris", "USA", 6, 50, 20, 15)}

EngineColumns ==
    {"city_name", "country", "happiness_score", "avg_income",
     "air_quality_index", "avg_rent"}

EngineNumericColumns ==
    {"happiness_score", "avg_income", "air_quality_index", "avg_rent"}

\* Datasets of distinct rows.
EngineDatasets ==
    {d \in UNION {[1..n -> EngineRowChoices] : n \in 0..MaxEngineRows} :
        \A i, j \in 1..Len(d) : i # j => d[i] # d[j]}

\* The filters dicts the handlers pass.
FilterChoices ==
    {[NoFilters EXCEPT !.country = GivenList({"France"})],
     [NoFilters EXCEPT !.min_happiness = GivenNum(Fx(6))],
     [NoFilters EXCEPT !.city = GivenList({"Rome"}),
                       !.max_income = GivenNum(Fx(25))],
     [NoFilters EXCEPT !.max_income = GivenNum(Fx(0))]}

\* `"key" in filters and filters["key"]`: an empty list and 0 are falsy.
ListApplies(e) == e.has /\ e.v # {}
NumApplies(e) == e.has /\ e.v # 0

\* Lines 342-360 of apply_filters: the filtered copy.
FilterRows(rows, f) ==
    LET keep(r) ==
            /\ ListApplies(f.country) => r.country \in f.country.v
            /\ ListApplies(f.city) => r.city_name \in f.city.v
            /\ NumApplies(f.min_happiness) => r.happiness_score >= f.min_happiness.v
            /\ NumApplies(f.max_happiness) => r.happiness_score <= f.max_happiness.v
            /\ NumApplies(f.min_income) => r.avg_income >= f.min_income.v
            /\ NumApplies(f.max_income) => r.avg_income <= f.max_income.v
    IN  SelectSeq(rows, keep)

\* The handlers between their apply_filters and their restore_dataframe.
Inside == {h \in Handlers : hpc[h] = "in_filter"}

Ready(h) == hpc[h] \in {"idle", "in_filter"}

apply_filters_copy(h, f) ==
    /\ hpc[h] = "idle"
    /\ filtered' = [filtered EXCEPT ![h] = FilterRows(edf, f)]
    /\ hpc' = [hpc EXCEPT ![h] = "filtering"]
    /\ lastOp' = [by |-> h, op |-> "apply_filters", during |-> Inside]
    /\ call' = [call EXCEPT ![h] = [filters |-> f, before |-> edf]]
    /\ UNCHANGED <<edf, saved, reply, loaded>>
    /\ UNCHANGED <<cleanerVars, cacheVars>>

\* Lines 362-364 of apply_filters: swap the frames, return the original.
apply_filters_swap(h) ==
    /\ hpc[h] = "filtering"
    /\ saved' = [saved EXCEPT ![h] = edf]
    /\ edf' = filtered[h]
    /\ filtered' = [filtered EXCEPT ![h] = <<>>]
    /\ hpc' = [hpc EXCEPT ![h] = "in_filter"]
    /\ lastOp' = [by |-> h, op |-> "apply_filters", during |-> Inside]
    /\ UNCHANGED <<reply, loaded, call>>
    /\ UNCHANGED <<cleanerVars, cacheVars>>

restore_dataframe(h) ==
    /\ hpc[h] = "in_filter"
    /\ edf' = saved[h]
    /\ saved' = [saved EXCEPT ![h] = <<>>]
    /\ hpc' = [hpc EXCEPT ![h] = "idle"]
    /\ call' = [call EXCEPT ![h] = NoCall]
    /\ UNCHANGED <<filtered, reply, lastOp, loaded>>
    /\ UNCHANGED <<cleanerVars, cacheVars>>

AfterQueryTruncated(rows) == IF rows = <<>> THEN rows ELSE Tail(rows)

\* self.df once a query method has run: the methods build their results from
\* new frames (nlargest, groupby, [[...]].copy(), boolean selection) and
\* neither assign self.df nor modify it in place.
AfterQuery(rows) == rows

\* get_overview_stats, reduced to its row count.
get_overview(h) ==
    /\ Ready(h)
    /\ reply' = [NoReply EXCEPT !.kind = "overview", !.status = 200,
                                !.total = Len(edf)]
    /\ lastOp' = [by |-> h, op |-> "query", during |-> Inside]
    /\ edf' = AfterQuery(edf)
    /\ UNCHANGED <<hpc, filtered, saved, loaded, call>>
    /\ UNCHANGED <<cleanerVars, cacheVars>>

-----------------------------------------------------------------------------
(* Top-N ranking.                                                          *)

BeforeTiesLast(rows, col, smallest, i, j) ==
    \/ (IF smallest THEN rows[i][col] < rows[j][col]
                    ELSE rows[i][col] > rows[j][col])
    \/ (rows[i][col] = rows[j][col] /\ i > j)

\* Whether row i comes before row j in nlargest (nsmallest when smallest):
\* by value, then by position (keep="first").
Before(rows, col, smallest, i, j) ==
    \/ (IF smallest THEN rows[i][col] < rows[j][col]
                    ELSE rows[i][col] > rows[j][col])
    \/ (rows[i][col] = rows[j][col] /\ i < j)

RECURSIVE Ranked(_, _, _, _, _)
\* The first n of the rows at positions idx, best first.
Ranked(rows, col, smallest, idx, n) ==
    IF n <= 0 \/ idx = {} THEN <<>>
    ELSE LET b == CHOOSE i \in idx :
                      \A j \in idx \ {i} : Before(rows, col, smallest, i, j)
         IN  <<rows[b]>> \o Ranked(rows, col, smallest, idx \ {b}, n - 1)

\* CityLifestyleDataProcessor.get_top_cities on a numeric column.
GetTopCities(rows, metric, top_n) ==
    LET top == Ranked(rows, metric, metric = "air_quality_index",
                      1..Len(rows), top_n)
    IN  [cities |-> [i \in 1..Len(top) |-> top[i].city_name],
         countries |-> [i \in 1..Len(top) |-> top[i].country],
         metric_values |-> [i \in 1..Len(top) |-> top[i][metric]],
         avg_income |-> [i \in 1..Len(top) |-> top[i].avg_income],
         happiness_score |-> [i \in 1..Len(top) |-> top[i].happiness_score]]

\* valid_metrics of the /api/cities/top/<metric> route.
ValidMetrics ==
    {"happiness_score", "avg_income", "internet_penetration",
     "public_transport_score", "green_space_ratio", "air_quality_index"}

IsExistingColumn(metric) == metric \in EngineNumericColumns

\* The route's check `metric not in valid_metrics`, negated.
IsValidMetric(metric) == metric \in ValidMetrics

\* The metrics the handlers are asked for.
RequestedMetrics ==
    {"happiness_score", "avg_income", "air_quality_index", "avg_rent",
     "population_density", "bogus"}

\* The route /api/cities/top/<metric>?top_n=n.
get_top_cities_route(h, metric, n) ==
    /\ Ready(h)
    /\ reply' =
           IF ~IsValidMetric(metric)
           THEN [NoReply EXCEPT !.kind = "top", !.status = 400,
                                !.metric = metric, !.top_n = n]
           ELSE IF metric \notin EngineColumns
           THEN [NoReply EXCEPT !.kind = "top", !.status = 500,     \* KeyError
                                !.metric = metric, !.top_n = n,
                                !.computed = TRUE]
           ELSE [NoReply EXCEPT !.kind = "top", !.status = 200,
                                !.metric = metric, !.top_n = n,
                                !.computed = TRUE,
                                !.data = GetTopCities(edf, metric, n)]
    /\ lastOp' = [by |-> h, op |-> "query", during |-> Inside]
    /\ edf' = AfterQuery(edf)
    /\ UNCHANGED <<hpc, filtered, saved, loaded, call>>
    /\ UNCHANGED <<cleanerVars, cacheVars>>

-----------------------------------------------------------------------------
(* The other query methods and their routes.                               *)

\* self.df["city_name"].head(10)
HeadRows == 10

RECURSIVE CompareFrom(_, _, _)
\* The loop of get_city_comparison from the k-th requested name on: the first
\* row whose city_name equals the name, under that name; nothing for a name
\* that no row has.
CompareFrom(rows, names, k) ==
    IF k > Len(names) THEN <<>>
    ELSE LET city == names[k]
             city_data == {i \in 1..Len(rows) : rows[i].city_name = city}
             first == CHOOSE i \in city_data : \A j \in city_data : i <= j
         IN  (IF city_data # {}
              THEN <<[rows[first] EXCEPT !.city_name = city]>>
              ELSE <<>>)
                 \o CompareFrom(rows, names, k + 1)

\* CityLifestyleDataProcessor.get_city_comparison; an entry carries the
\* columns the model tracks.
GetCityComparison(rows, cities) ==
    LET head == IF Len(rows) < HeadRows THEN Len(rows) ELSE HeadRows
        names == IF cities.given THEN cities.names
                 ELSE [i \in 1..head |-> rows[i].city_name]
    IN  CompareFrom(rows, names, 1)

\* The "cities" lists the clients post.
CityRequests ==
    {NoCities, Cities(<<>>), Cities(<<"Nowhere">>), Cities(<<"Rome", "Paris">>),
     Cities(<<"Paris", "Nowhere">>), Cities(<<"Lyon", "Lyon">>)}

\* The route /api/city/comparison.
get_city_comparison(h, cities) ==
    /\ Ready(h)
    /\ reply' = [NoReply EXCEPT !.kind = "comparison", !.status = 200,
                                !.cities = cities,
                                !.comparison = GetCityComparison(edf, cities)]
    /\ lastOp' = [by |-> h, op |-> "query", during |-> Inside]
    /\ edf' = AfterQuery(edf)
    /\ UNCHANGED <<hpc, filtered, saved, loaded, call>>
    /\ UNCHANGED <<cleanerVars, cacheVars>>

CountriesOf(rows) == {rows[i].country : i \in 1..Len(rows)}

\* The route /api/filters: get_filters_options, its sorted lists as sets.
get_filters(h) ==
    /\ Ready(h)
    /\ reply' = [NoReply EXCEPT
                     !.kind = "filters", !.status = 200,
                     !.options =
                         [countries |-> CountriesOf(edf),
                          cities |-> {edf[i].city_name : i \in 1..Len(edf)}]]
    /\ lastOp' = [by |-> h, op |-> "query", during |-> Inside]
    /\ edf' = AfterQuery(edf)
    /\ UNCHANGED <<hpc, filtered, saved, loaded, call>>
    /\ UNCHANGED <<cleanerVars, cacheVars>>

\* The route /api/cities/by-country: get_cities_by_country, reduced to the
\* number of cities of each country.
get_cities_by_country(h) ==
    /\ Ready(h)
    /\ reply' = [NoReply EXCEPT
                     !.kind = "by_country", !.status = 200,
                     !.city_count =
                         [c \in CountriesOf(edf) |->
                             Cardinality({i \in 1..Len(edf) : edf[i].country = c})]]
    /\ lastOp' = [by |-> h, op |-> "query", during |-> Inside]
    /\ edf' = AfterQuery(edf)
    /\ UNCHANGED <<hpc, filtered, saved, loaded, call>>
    /\ UNCHANGED <<cleanerVars, cacheVars>>

\* The group keys of groupby("country"), in their sorted order.
CountryOrder == <<"France", "Italy", "USA">>

CountryRank(c) == CHOOSE k \in 1..Len(CountryOrder) : CountryOrder[k] = c

RECURSIVE HappinessSum(_, _, _)
HappinessSum(rows, c, i) ==
    IF i > Len(rows) THEN 0
    ELSE (IF rows[i].country = c THEN rows[i].happiness_score ELSE 0)
             + HappinessSum(rows, c, i + 1)

\* groupby("country")["happiness_score"].mean().idxmax(): the first group, in
\* key order, with the largest mean (means compared by cross-multiplication).
HappiestCountry(rows) ==
    LET count(c) == Cardinality({i \in 1..Len(rows) : rows[i].country = c})
        above(a, b) == HappinessSum(rows, a, 1) * count(b)
                           > HappinessSum(rows, b, 1) * count(a)
        level(a, b) == HappinessSum(rows, a, 1) * count(b)
                           = HappinessSum(rows, b, 1) * count(a)
    IN  CHOOSE c \in CountriesOf(rows) :
            \A o \in CountriesOf(rows) \ {c} :
                above(c, o) \/ (level(c, o) /\ CountryRank(c) < CountryRank(o))

\* The route /api/insights: get_advanced_insights, reduced to its
\* happiest_country; idxmax raises ValueError on a dataset without rows.
get_insights(h) ==
    /\ Ready(h)
    /\ reply' = IF edf = <<>>
                THEN [NoReply EXCEPT !.kind = "insights", !.status = 500]
                ELSE [NoReply EXCEPT !.kind = "insights", !.status = 200,
                                     !.happiest_country = HappiestCountry(edf)]
    /\ lastOp' = [by |-> h, op |-> "query", during |-> Inside]
    /\ edf' = AfterQuery(edf)
    /\ UNCHANGED <<hpc, filtered, saved, loaded, call>>
    /\ UNCHANGED <<cleanerVars, cacheVars>>

\* The values of column col in the rows of country c.
GroupValues(rows, c, col) ==
    {rows[i][col] : i \in {j \in 1..Len(rows) : rows[j].country = c}}

SetMin(S) == CHOOSE v \in S : \A w \in S : v <= w
SetMax(S) == CHOOSE v \in S : \A w \in S : v >= w

\* The route /api/income/analysis: get_income_analysis, reduced to the min
\* and max of avg_income per country.
get_income_analysis(h) ==
    /\ Ready(h)
    /\ reply' = [NoReply EXCEPT
                     !.kind = "income", !.status = 200,
                     !.result =
                         [c \in CountriesOf(edf) |->
                             [min |-> SetMin(GroupValues(edf, c, "avg_income")),
                              max |-> SetMax(GroupValues(edf, c, "avg_income"))]]]
    /\ lastOp' = [by |-> h, op |-> "query", during |-> Inside]
    /\ edf' = AfterQuery(edf)
    /\ UNCHANGED <<hpc, filtered, saved, loaded, call>>
    /\ UNCHANGED <<cleanerVars, cacheVars>>

\* The route /api/happiness/analysis: get_happiness_analysis, reduced to the
\* min and max of happiness_score per country.
get_happiness_analysis(h) ==
    /\ Ready(h)
    /\ reply' = [NoReply EXCEPT
                     !.kind = "happiness", !.status = 200,
                     !.result =
                         [c \in CountriesOf(edf) |->
                             [min |-> SetMin(GroupValues(edf, c, "happiness_score")),
                              max |-> SetMax(GroupValues(edf, c, "happiness_score"))]]]
    /\ lastOp' = [by |-> h, op |-> "query", during |-> Inside]
    /\ edf' = AfterQuery(edf)
    /\ UNCHANGED <<hpc, filtered, saved, loaded, call>>
    /\ UNCHANGED <<cleanerVars, cacheVars>>

\* The route /api/geographic: get_geographic_data, the columns as lists.
get_geographic(h) ==
    /\ Ready(h)
    /\ reply' = [NoReply EXCEPT
                     !.kind = "geographic", !.status = 200,
                     !.result =
                         [c \in EngineColumns |->
                             [i \in 1..Len(edf) |-> edf[i][c]]]]
    /\ lastOp' = [by |-> h, op |-> "query", during |-> Inside]
    /\ edf' = AfterQuery(edf)
    /\ UNCHANGED <<hpc, filtered, saved, loaded, call>>
    /\ UNCHANGED <<cleanerVars, cacheVars>>

\* The route /api/quality-of-life: get_quality_of_life_analysis, reduced to
\* the count of describe() on air_quality_index.
get_quality_of_life(h) ==
    /\ Ready(h)
    /\ reply' = [NoReply EXCEPT !.kind = "quality_of_life", !.status = 200,
                                !.total = Len(edf)]
    /\ lastOp' = [by |-> h, op |-> "query", during |-> Inside]
    /\ edf' = AfterQuery(edf)
    /\ UNCHANGED <<hpc, filtered, saved, loaded, call>>
    /\ UNCHANGED <<cleanerVars, cacheVars>>

\* The route /api/correlations: get_correlations, reduced to its column list
\* (the tracked ones of numeric_cols).
get_correlations(h) ==
    /\ Ready(h)
    /\ reply' = [NoReply EXCEPT
                     !.kind = "correlations", !.status = 200,
                     !.result = <<"avg_income", "avg_rent", "air_quality_index",
                                  "happiness_score">>]
    /\ lastOp' = [by |-> h, op |-> "query", during |-> Inside]
    /\ edf' = AfterQuery(edf)
    /\ UNCHANGED <<hpc, filtered, saved, loaded, call>>
    /\ UNCHANGED <<cleanerVars, cacheVars>>

-----------------------------------------------------------------------------
\* No cleaning run is in progress.
CleanerOff ==
    /\ source = NoFile
    /\ dest = NoFile
    /\ destAtStart = NoFile
    /\ df = NoFrame
    /\ prev = NoFrame
    /\ pc = "off"
    /\ trace = <<>>
    /\ duplicates = 0
    /\ missing = NoReport
    /\ outliers = NoReport
    /\ cleaning_report = NoReport
    /\ run = 1
    /\ firstOut = NoFile

InitEngine ==
    /\ CleanerOff
    /\ CacheOff
    /\ edf \in EngineDatasets
    /\ hpc = [h \in Handlers |-> "idle"]
    /\ filtered = [h \in Handlers |-> <<>>]
    /\ saved = [h \in Handlers |-> <<>>]
    /\ reply = NoReply
    /\ lastOp = [by |-> 0, op |-> "none", during |-> {}]
    /\ loaded = edf
    /\ call = [h \in Handlers |-> NoCall]

\* Handlers that use the filter/restore pair around their queries.
NextEngine ==
    \E h \in Handlers :
        \/ \E f \in FilterChoices : apply_filters_copy(h, f)
        \/ apply_filters_swap(h)
        \/ restore_dataframe(h)
        \/ get_overview(h)

SpecEngine == InitEngine /\ [][NextEngine]_vars

\* The Flask application: its routes never call apply_filters.
NextApi ==
    \E h \in Handlers :
        \/ get_overview(h)
        \/ \E metric \in RequestedMetrics, n \in 0..MaxTopN :
               get_top_cities_route(h, metric, n)
        \/ \E cities \in CityRequests : get_city_comparison(h, cities)
        \/ get_filters(h)
        \/ get_cities_by_country(h)
        \/ get_insights(h)
        \/ get_income_analysis(h)
        \/ get_happiness_analysis(h)
        \/ get_geographic(h)
        \/ get_quality_of_life(h)
        \/ get_correlations(h)

SpecApi == InitEngine /\ [][NextApi]_vars

-----------------------------------------------------------------------------
(* DataRetriever (src/src/get_data.py).                                    *)

\* _is_cache_valid: the file exists and its st_mtime is less than
\* cache_duration before now.
IsCacheValid(file) == file.exists /\ now - file.mtime < CacheDuration

\* get_data(source_path, force_refresh); shutil.copy2 gives the copy the
\* st_mtime of the source.
get_data(force_refresh) ==
    /\ pc = "retriever"
    /\ IF ~force_refresh /\ IsCacheValid(cached_file)
       THEN /\ fetch' = [called |-> TRUE, force |-> force_refresh, at |-> now,
                         had |-> cached_file, copied |-> FALSE, raised |-> FALSE]
            /\ UNCHANGED cached_file
       ELSE IF origin.exists
       THEN /\ cached_file' = FileAt(origin.mtime, now)
            /\ fetch' = [called |-> TRUE, force |-> force_refresh, at |-> now,
                         had |-> cached_file, copied |-> TRUE, raised |-> FALSE]
       ELSE /\ fetch' = [called |-> TRUE, force |-> force_refresh, at |-> now,
                         had |-> cached_file, copied |-> FALSE, raised |-> TRUE]
            /\ UNCHANGED cached_file   \* FileNotFoundError
    /\ UNCHANGED <<now, origin>>
    /\ UNCHANGED <<cleanerVars, engineVars>>

clear_cache ==
    /\ pc = "retriever"
    /\ cached_file.exists
    /\ cached_file' = Absent
    /\ UNCHANGED <<now, origin, fetch>>
    /\ UNCHANGED <<cleanerVars, engineVars>>

\* The environment: time passes, the source file is written or removed.
tick ==
    /\ pc = "retriever"
    /\ now < MaxTime
    /\ now' = now + 1
    /\ UNCHANGED <<origin, cached_file, fetch>>
    /\ UNCHANGED <<cleanerVars, engineVars>>

write_source ==
    /\ pc = "retriever"
    /\ origin # FileAt(now, now)
    /\ origin' = FileAt(now, now)
    /\ UNCHANGED <<now, cached_file, fetch>>
    /\ UNCHANGED <<cleanerVars, engineVars>>

remove_source ==
    /\ pc = "retriever"
    /\ origin.exists
    /\ origin' = Absent
    /\ UNCHANGED <<now, cached_file, fetch>>
    /\ UNCHANGED <<cleanerVars, engineVars>>

InitCache ==
    /\ source = NoFile
    /\ dest = NoFile
    /\ destAtStart = NoFile
    /\ df = NoFrame
    /\ prev = NoFrame
    /\ pc = "retriever"
    /\ trace = <<>>
    /\ duplicates = 0
    /\ missing = NoReport
    /\ outliers = NoReport
    /\ cleaning_report = NoReport
    /\ run = 1
    /\ firstOut = NoFile
    /\ EngineOff
    /\ now = 0
    /\ origin \in {Absent, FileAt(0, 0)}
    /\ cached_file = Absent
    /\ fetch = NoFetch

NextCache ==
    \/ \E force_refresh \in BOOLEAN : get_data(force_refresh)
    \/ clear_cache
    \/ tick
    \/ write_source
    \/ remove_source

SpecCache == InitCache /\ [][NextCache]_vars

-----------------------------------------------------------------------------
(* Properties of the stats engine.                                         *)

\* C5: the filter/restore pair is a mutually exclusive critical section: no
\* query and no apply_filters of another handler runs between a handler's
\* apply_filters and its restore_dataframe.
C5_CriticalSection ==
    /\ lastOp.during \subseteq {lastOp.by}
    /\ Cardinality(Inside) <= 1

\* C6: the top-N operation answers a metric outside the six whitelisted
\* columns with an input error and computes no ranking for it.
C6_MetricWhitelist ==
    reply.kind = "top" =>
        IF reply.metric \in {"happiness_score", "avg_income",
                             "internet_penetration", "public_transport_score",
                             "green_space_ratio", "air_quality_index"}
        THEN reply.status # 400
        ELSE /\ reply.status = 400
             /\ ~reply.computed
             /\ reply.data = NoTop

\* A request for an existing numeric column that is not whitelisted was
\* rejected, on a dataset that has rows to rank.
C6_Witness ==
    /\ reply.kind = "top"
    /\ reply.metric = "avg_rent"
    /\ reply.top_n > 0
    /\ reply.status = 400
    /\ Len(edf) > 0

\* C13: get_top_cities returns min(top_n, rows) rows, the smallest values in
\* ascending order for air_quality_index and the largest in descending order
\* for any other metric, an earlier row before a later one of equal value,
\* and its five lists describe the same rows index by index.
C13_TopCities ==
    (reply.kind = "top" /\ reply.status = 200) =>
        LET m == reply.metric
            d == reply.data
            k == IF reply.top_n < Len(edf) THEN reply.top_n ELSE Len(edf)
            ahead(i, j) ==
                \/ (IF m = "air_quality_index" THEN edf[i][m] < edf[j][m]
                                                ELSE edf[i][m] > edf[j][m])
                \/ (edf[i][m] = edf[j][m] /\ i < j)
        IN  /\ Len(d.cities) = k
            /\ Len(d.countries) = k
            /\ Len(d.metric_values) = k
            /\ Len(d.avg_income) = k
            /\ Len(d.happiness_score) = k
            /\ \E p \in [1..k -> 1..Len(edf)] :
                   /\ \A a \in 1..k :
                          /\ d.cities[a] = edf[p[a]].city_name
                          /\ d.countries[a] = edf[p[a]].country
                          /\ d.metric_values[a] = edf[p[a]][m]
                          /\ d.avg_income[a] = edf[p[a]].avg_income
                          /\ d.happiness_score[a] = edf[p[a]].happiness_score
                   /\ \A a, b \in 1..k : a < b => ahead(p[a], p[b])
                   /\ \A a \in 1..k :
                          \A q \in (1..Len(edf)) \ {p[b] : b \in 1..k} :
                              ahead(p[a], q)

\* The top one of two rows of equal happiness_score was asked for, and the
\* earlier row was returned.
C13_Witness ==
    /\ reply.kind = "top"
    /\ reply.status = 200
    /\ reply.metric = "happiness_score"
    /\ reply.top_n = 1
    /\ Len(edf) >= 2
    /\ edf[1].happiness_score = edf[2].happiness_score
    /\ edf[1].city_name # edf[2].city_name
    /\ reply.data.cities = <<edf[1].city_name>>

\* C14: a query operation leaves the engine's working dataset as it was
\* loaded, whether it returns a result or fails.
C14_QueriesReadOnly ==
    /\ edf = loaded
    /\ [][edf' = edf]_vars

\* A query has answered from a dataset of several rows, which is still the
\* loaded one.
C14_Witness ==
    /\ lastOp.op = "query"
    /\ reply.kind = "comparison"
    /\ Len(reply.comparison) > 1
    /\ Len(edf) > 1
    /\ edf = loaded

\* C15: get_city_comparison returns, in request order, one entry for every
\* requested name that some row has and none for the others; without a list
\* it returns one entry for each of the first ten rows, and each entry has
\* the country and the metric values of the row it stands for.
C15_CityComparison ==
    reply.kind = "comparison" =>
        /\ reply.status = 200
        /\ IF reply.cities.given
           THEN LET known(name) == \E i \in 1..Len(edf) : edf[i].city_name = name
                    found == SelectSeq(reply.cities.names, known)
                IN  /\ Len(reply.comparison) = Len(found)
                    /\ \A a \in 1..Len(found) :
                           /\ reply.comparison[a].city_name = found[a]
                           /\ \E i \in 1..Len(edf) : edf[i] = reply.comparison[a]
           ELSE LET head == IF Len(edf) < 10 THEN Len(edf) ELSE 10
                IN  reply.comparison = [i \in 1..head |-> edf[i]]

\* C17: once every caller has restored what its own apply_filters returned,
\* the working dataset is the dataset the engine was loaded with.
C17_RestoredAfterBoth ==
    (\A h \in Handlers : hpc[h] = "idle") => edf = loaded

\* C18: the frame apply_filters installs holds exactly the rows of the frame
\* it was applied to, in order, that meet every criterion present in the
\* filters dict, whatever the value of a bound.
C18_FilterSemantics ==
    \A h \in Handlers :
        hpc[h] = "filtering" =>
            LET f == call[h].filters
                meets(r) ==
                    /\ f.country.has => r.country \in f.country.v
                    /\ f.city.has => r.city_name \in f.city.v
                    /\ f.min_happiness.has => r.happiness_score >= f.min_happiness.v
                    /\ f.max_happiness.has => r.happiness_score <= f.max_happiness.v
                    /\ f.min_income.has => r.avg_income >= f.min_income.v
                    /\ f.max_income.has => r.avg_income <= f.max_income.v
            IN  filtered[h] = SelectSeq(call[h].before, meets)

-----------------------------------------------------------------------------
(* Properties of the retriever.                                            *)

\* C19: get_data without force_refresh goes to the source exactly when there
\* is no cached file or the cached file was put into the cache at least
\* cache_duration ago; otherwise it returns the cached path without copying
\* and without needing the source, whatever the source's modification time.
C19_CacheFreshness ==
    (fetch.called /\ ~fetch.force) =>
        LET stale == \/ ~fetch.had.exists
                     \/ fetch.at - fetch.had.placed >= CacheDuration
        IN  (fetch.copied \/ fetch.raised) <=> stale
====
